---------------------------- MODULE Spec2Model ----------------------------
(***************************************************************************)
(* Transactional game-play engine of the scratch-card backend:             *)
(* ScratchCardService.playScratchCard, LicenseService, the redemption      *)
(* chooser, the other wallet operations and the administration of the      *)
(* license and of the prizes, over the committed store.                    *)
(*                                                                         *)
(* Money is counted in whole currency units.  Each request runs in a       *)
(* worker slot; every await of the code that touches the store is one      *)
(* step.  A $transaction is modelled by its begin, its statements and its  *)
(* commit: statements issued on the transaction client take effect at the  *)
(* commit, all together, or not at all.  The play transaction is opened    *)
(* with isolationLevel 'Serializable': it aborts when a row it updates     *)
(* was updated by a commit made after its snapshot.  The other             *)
(* transactions use the store's default isolation (read committed).        *)
(***************************************************************************)
EXTENDS Integers, Sequences, FiniteSets, TLC

\* ------------------------------------------------------------------ bounds
\* Number of requests (of any kind) started in one behaviour.
MaxOps == 3

\* ------------------------------------------------------- program constants
\* Minimum withdrawal amount.
MinWithdraw == 10

\* ------------------------------------------------------------- model data
Users == {"u1", "u2"}
Procs == {"p1", "p2"}

\* users.is_influencer, fixed during a behaviour
IsInfluencer(u) == u = "u2"

\* The one product on sale: its price and target RTP (percent).
ScratchCard == [price |-> 2, target_rtp |-> 85]

Price == ScratchCard.price

\* Its prizes as seeded, in the order the query returns them; a row's id is
\* its position in the table, a null value or redemption_value is 0, and
\* deleted marks a row that was removed from the table.
\* id 1: cash prize; id 2: physical product with a cash redemption value.
Prizes ==
  << [id |-> 1, type |-> "MONEY",   value |-> 3, redemption_value |-> 0,
      probability |-> 30, is_active |-> TRUE, deleted |-> FALSE],
     [id |-> 2, type |-> "PRODUCT", value |-> 0, redemption_value |-> 4,
      probability |-> 30, is_active |-> TRUE, deleted |-> FALSE] >>

\* prize: null
NoPrize ==
  [id |-> 0, type |-> "null", value |-> 0, redemption_value |-> 0,
   probability |-> 0, is_active |-> FALSE, deleted |-> FALSE]

\* Values of Math.random() * 100 that are tried.
Draws == {0, 50, 90}

InitBalances   == {2, 10}
InitCredits    == {2}
WithdrawAmounts == {10}
AdjustAmounts  == {-2, 2}
CreditEdits    == {0, 4}
Choices        == {"money", "product", "other"}

\* Pending deposits as createDeposit leaves them, one per user.
Deposits ==
  << [userId |-> "u1", amount |-> 20], [userId |-> "u2", amount |-> 40] >>

\* users.invitedBy, fixed during a behaviour: u1 was invited by u2.
InvitedBy(u) == IF u = "u1" THEN "u2" ELSE "none"

\* commission_rate of the inviter's invite code, in percent.
CommissionRate(u) == 5

\* Rows of the store that more than one operation updates.
WalletRow(u) == <<"wallet", u>>
UserRow(u)   == <<"user", u>>
CardRow      == <<"card">>
LicenseRow   == <<"license">>

VARIABLES
  balance,      \* wallets.balance, per user
  userStats,    \* users.total_scratchs / total_wins / total_losses /
                \* total_withdraw / total_deposit, and total_commission of
                \* the user's invite code
  card,         \* scratch_cards row: totals and current_rtp
  prizes,       \* prizes table of the product, in insertion order
  license,      \* the current licenses row
  games,        \* games table, in insertion order
  usage,        \* usage_licenses table, in insertion order
  withdraws,    \* withdraws table, in insertion order
  deposits,     \* deposits table: the status of each deposit
  proc,         \* per worker slot: the request in flight and its local variables
  opsLeft,      \* requests that may still start
  hist          \* history: initial values and what has been committed so far

store == <<balance, userStats, card, prizes, license, games, usage, withdraws,
           deposits>>
vars  == <<balance, userStats, card, prizes, license, games, usage, withdraws,
           deposits, proc, opsLeft, hist>>

\* --------------------------------------------------------------- helpers
\* current_rtp is kept exactly, as the fraction num/den (den > 0).
RtpZero == [num |-> 0, den |-> 1]

IdleProc ==
  [pc |-> "idle", op |-> "none", user |-> "none", res |-> "none",
   wbal |-> 0, rtp |-> RtpZero, prizes |-> << >>, prize |-> NoPrize,
   isWinner |-> FALSE, amountWon |-> 0, licOk |-> FALSE, needed |-> 0,
   ggr |-> 0, game |-> 0, choice |-> "none", amount |-> 0, target |-> 0,
   gamesWithPrize |-> 0, dirty |-> {}]

\* A request that has returned: the slot is free again, its outcome is kept.
Finished(p, result) ==
  [IdleProc EXCEPT !.op = proc[p].op, !.res = result, !.game = proc[p].game]

InPlayTx(q) == proc[q].pc \in {"play_consume", "play_commit"}

\* ------------------------------------------------------------------ Init
\* A card as createScratchCardWithPrizes inserts it.
NewCard ==
  [exists |-> TRUE, current_rtp |-> RtpZero, total_revenue |-> 0,
   total_payouts |-> 0, total_games_played |-> 0]

\* The card on sale with its prizes.
InitCard ==
  /\ card = NewCard
  /\ prizes = Prizes

\* Users, wallets and the license, with empty game tables.
InitAccounts ==
  /\ \E b \in InitBalances : balance = [u \in Users |-> IF u = "u1" THEN b ELSE Price]
  /\ userStats = [u \in Users |->
       [total_scratchs |-> 0, total_wins |-> 0, total_losses |-> 0,
        total_withdraw |-> 0, total_deposit |-> 0, total_commission |-> 0]]
  /\ \E c \in InitCredits :
       license = [credits |-> c, credits_used |-> 0, credits_value |-> 1,
                  ggr_percentage |-> 10, total_earnings |-> 0, is_active |-> TRUE]
  /\ games = << >>
  /\ usage = << >>
  /\ withdraws = << >>
  /\ deposits = [d \in 1..Len(Deposits) |-> [status |-> FALSE]]
  /\ proc = [p \in Procs |-> IdleProc]
  /\ opsLeft = MaxOps
  /\ hist = [initBalance |-> balance, initCredits |-> license.credits,
             walletOther |-> {}, licenseEdited |-> FALSE,
             creditsEdited |-> FALSE,
             playDebits |-> [u \in Users |-> 0],
             redeemCredits |-> << >>]

Init == InitCard /\ InitAccounts

\* --------------------------------------------------------- License Meter
\* Variant of CreditsNeeded: one credit for every operation.
CreditsNeededOnePerOperation(lic, amount) == 1

\* Math.ceil(amount / credits_value) for credits_value > 0, else 1.
\* total_earnings is counted in hundredths of a currency unit.
CreditsNeeded(lic, amount) ==
  IF lic.credits_value > 0
    THEN (amount + lic.credits_value - 1) \div lic.credits_value
    ELSE 1

\* Variant of HasEnoughCredits: is_active is not looked at.
HasEnoughCreditsIgnoresActive(lic, amount) ==
  IF lic.credits < CreditsNeeded(lic, amount)
    THEN [success |-> FALSE, message |-> "insufficient",
          creditsNeeded |-> CreditsNeeded(lic, amount)]
    ELSE [success |-> TRUE, message |-> "ok",
          creditsNeeded |-> CreditsNeeded(lic, amount)]

\* hasEnoughCredits: a structured result, never an exception.
HasEnoughCredits(lic, amount) ==
  IF ~lic.is_active
    THEN [success |-> FALSE, message |-> "inactive", creditsNeeded |-> 0]
    ELSE IF lic.credits < CreditsNeeded(lic, amount)
      THEN [success |-> FALSE, message |-> "insufficient",
            creditsNeeded |-> CreditsNeeded(lic, amount)]
      ELSE [success |-> TRUE, message |-> "ok",
            creditsNeeded |-> CreditsNeeded(lic, amount)]

\* ------------------------------------------------------ Outcome Resolver
RtpLess(a, t)    == a.num < t * a.den
RtpGreater(a, t) == a.num > t * a.den

\* Variant of RtpMultiplier: a current RTP that is not below the target is
\* treated as above it.
RtpMultiplierTwoWay(currentRtp, targetRtp, influencer) ==
  LET base == IF RtpLess(currentRtp, targetRtp) THEN 12 ELSE 8
  IN IF influencer THEN base * 6 ELSE base

\* rtpMultiplier, in tenths: 1.2 / 0.8 / 1, times 6 for an influencer.
RtpMultiplier(currentRtp, targetRtp, influencer) ==
  LET base == IF RtpLess(currentRtp, targetRtp) THEN 12
              ELSE IF RtpGreater(currentRtp, targetRtp) THEN 8 ELSE 10
  IN IF influencer THEN base * 6 ELSE base

RECURSIVE Cumulative(_, _, _)
Cumulative(list, i, mult) ==
  IF i = 0 THEN 0 ELSE Cumulative(list, i - 1, mult) + list[i].probability * mult

\* Variant of DetermineGameResult: no early return for an empty list, and
\* the draw is compared with the sum before the prize is added to it.
DetermineGameResultCompareFirst(list, currentRtp, targetRtp, influencer, r) ==
  LET mult == RtpMultiplier(currentRtp, targetRtp, influencer)
      hits == {i \in 0..Len(list) : r * 10 <= Cumulative(list, i, mult)}
      k    == CHOOSE i \in hits : \A j \in hits : i <= j
  IN IF hits = {} THEN [isWinner |-> FALSE, prize |-> NoPrize]
     ELSE [isWinner |-> TRUE, prize |-> IF k = 0 THEN NoPrize ELSE list[k]]

\* Variant of DetermineGameResult: a prize wins only when its cumulative sum
\* is above the draw.
DetermineGameResultStrict(list, currentRtp, targetRtp, influencer, r) ==
  LET mult == RtpMultiplier(currentRtp, targetRtp, influencer)
      hits == {i \in 1..Len(list) : r * 10 < Cumulative(list, i, mult)}
  IN IF Len(list) = 0 \/ hits = {} THEN [isWinner |-> FALSE, prize |-> NoPrize]
     ELSE [isWinner |-> TRUE,
           prize |-> list[CHOOSE i \in hits : \A j \in hits : i <= j]]

\* determineGameResult over the prize list of the card that was read: the
\* first prize whose cumulative adjusted probability reaches the draw.
\* r is the value of Math.random() * 100; sums are in tenths.
DetermineGameResult(list, currentRtp, targetRtp, influencer, r) ==
  LET mult == RtpMultiplier(currentRtp, targetRtp, influencer)
      hits == {i \in 1..Len(list) : r * 10 <= Cumulative(list, i, mult)}
  IN IF Len(list) = 0 \/ hits = {} THEN [isWinner |-> FALSE, prize |-> NoPrize]
     ELSE [isWinner |-> TRUE,
           prize |-> list[CHOOSE i \in hits : \A j \in hits : i <= j]]

\* ------------------------------------------- Game Transaction Coordinator

\* Variant of StmtClient: the wallet debit is issued on the global client.
StmtClientDebitOutside(stmt) == IF stmt = "debit" THEN "prisma" ELSE "tx"

\* The client each statement of the play transaction is issued on: "tx" for
\* the transaction client, "prisma" for the global, auto-committing client.
\* Statements: debit, credit, game, user, stats (totals and current_rtp),
\* license, usage.
StmtClient(stmt) == "tx"

BodyStmts    == {"debit", "credit", "game", "user", "stats"}
ConsumeStmts == {"license", "usage"}

\* Whether statement stmt takes effect in this phase: a statement on the
\* transaction client at the commit, one on the global client when it is issued.
Runs(stmt, phase) ==
  IF phase = "commit"
    THEN StmtClient(stmt) = "tx"
    ELSE /\ StmtClient(stmt) = "prisma"
         /\ stmt \in (IF phase = "body" THEN BodyStmts ELSE ConsumeStmts)

\* amountWon / prizeId / prizeType computed from the resolved outcome.
AmountWon(result) ==
  IF result.isWinner /\ result.prize.id # 0 /\ result.prize.type = "MONEY"
    THEN result.prize.value ELSE 0

WinsMoney(l) == l.isWinner /\ l.prize.id # 0 /\ l.prize.type = "MONEY"

NewGame(l) ==
  [userId |-> l.user, prizeId |-> l.prize.id, is_winner |-> l.isWinner,
   amount_won |-> l.amountWon,
   prize_type |-> IF l.isWinner /\ l.prize.id # 0 THEN l.prize.type ELSE "null",
   redemption_choice |-> FALSE, status |-> "COMPLETED"]

\* Variant of PlayBalance: every winner is credited, a product prize with its
\* redemption value.
PlayBalanceCreditsProduct(bal, l, phase) ==
  LET b1 == IF Runs("debit", phase) THEN bal - Price ELSE bal
  IN IF Runs("credit", phase) /\ l.isWinner /\ l.prize.id # 0
       THEN b1 + l.prize.value + l.prize.redemption_value
       ELSE b1

\* wallet.update decrement price; wallet.update increment amountWon
PlayBalance(bal, l, phase) ==
  LET b1 == IF Runs("debit", phase) THEN bal - Price ELSE bal
  IN IF Runs("credit", phase) /\ WinsMoney(l) THEN b1 + l.amountWon ELSE b1

\* game.create
PlayGames(gs, l, phase) ==
  IF Runs("game", phase) THEN Append(gs, NewGame(l)) ELSE gs

\* Variant of PlayUserStats: a win is counted only when money was won.
PlayUserStatsMoneyWins(us, l, phase) ==
  IF Runs("user", phase)
    THEN [us EXCEPT !.total_scratchs = @ + 1,
                    !.total_wins = IF WinsMoney(l) THEN @ + 1 ELSE @,
                    !.total_losses = IF ~l.isWinner THEN @ + 1 ELSE @]
    ELSE us

\* user.update: total_scratchs, and total_wins or total_losses
PlayUserStats(us, l, phase) ==
  IF Runs("user", phase)
    THEN [us EXCEPT !.total_scratchs = @ + 1,
                    !.total_wins = IF l.isWinner THEN @ + 1 ELSE @,
                    !.total_losses = IF ~l.isWinner THEN @ + 1 ELSE @]
    ELSE us

\* current_rtp = total_payouts / total_revenue * 100, 0 without revenue
CurrentRtp(revenue, payouts) ==
  IF revenue > 0 THEN [num |-> payouts * 100, den |-> revenue] ELSE RtpZero

\* Variant of PlayCard: current_rtp is recomputed for every player.
PlayCardAlwaysRecomputes(c, l, phase) ==
  IF Runs("stats", phase)
    THEN LET c1 == [c EXCEPT !.total_revenue = @ + Price,
                             !.total_payouts = @ + l.amountWon,
                             !.total_games_played = @ + 1]
         IN [c1 EXCEPT !.current_rtp =
               CurrentRtp(c1.total_revenue, c1.total_payouts)]
    ELSE c

\* Variant of PlayCard: total_payouts counts the net result of the play.
PlayCardNetPayout(c, l, phase) ==
  IF Runs("stats", phase)
    THEN LET c1 == [c EXCEPT !.total_revenue = @ + Price,
                             !.total_payouts = @ + l.amountWon - Price,
                             !.total_games_played = @ + 1]
         IN IF ~IsInfluencer(l.user)
              THEN [c1 EXCEPT !.current_rtp =
                      CurrentRtp(c1.total_revenue, c1.total_payouts)]
              ELSE c1
    ELSE c

\* Variant of PlayCard: current_rtp is computed from the totals as they were
\* before the play was added.
PlayCardStaleRtp(c, l, phase) ==
  IF Runs("stats", phase)
    THEN LET c1 == [c EXCEPT !.total_revenue = @ + Price,
                             !.total_payouts = @ + l.amountWon,
                             !.total_games_played = @ + 1]
         IN IF ~IsInfluencer(l.user)
              THEN [c1 EXCEPT !.current_rtp =
                      CurrentRtp(c.total_revenue, c.total_payouts)]
              ELSE c1
    ELSE c

\* scratchCard.update of the totals, then, for a player who is no influencer,
\* the read of the updated totals and the update of current_rtp
PlayCard(c, l, phase) ==
  IF Runs("stats", phase)
    THEN LET c1 == [c EXCEPT !.total_revenue = @ + Price,
                             !.total_payouts = @ + l.amountWon,
                             !.total_games_played = @ + 1]
         IN IF ~IsInfluencer(l.user)
              THEN [c1 EXCEPT !.current_rtp =
                      CurrentRtp(c1.total_revenue, c1.total_payouts)]
              ELSE c1
    ELSE c

\* Variant of PlayLicense: the two counters are moved the wrong way round.
PlayLicenseSwapped(lic, l, phase) ==
  IF Runs("license", phase) /\ l.licOk
    THEN [lic EXCEPT !.credits_used = @ - l.needed,
                     !.credits = @ + l.needed,
                     !.total_earnings = @ + Price * l.ggr]
    ELSE lic

\* Variant of PlayLicense: one credit is taken per play, whatever it needs.
PlayLicenseTakesOne(lic, l, phase) ==
  IF Runs("license", phase) /\ l.licOk
    THEN [lic EXCEPT !.credits_used = @ + l.needed,
                     !.credits = @ - 1,
                     !.total_earnings = @ + Price * l.ggr]
    ELSE lic

\* Variant of PlayLicense: the whole amount of the operation is booked as
\* earnings.
PlayLicenseEarnsAmount(lic, l, phase) ==
  IF Runs("license", phase) /\ l.licOk
    THEN [lic EXCEPT !.credits_used = @ + l.needed,
                     !.credits = @ - l.needed,
                     !.total_earnings = @ + Price * 100]
    ELSE lic

\* license.update in consumeCreditsAndAddEarnings, reached only when its own
\* hasEnoughCredits succeeded
PlayLicense(lic, l, phase) ==
  IF Runs("license", phase) /\ l.licOk
    THEN [lic EXCEPT !.credits_used = @ + l.needed,
                     !.credits = @ - l.needed,
                     !.total_earnings = @ + Price * l.ggr]
    ELSE lic

\* Variant of PlayUsage: the record notes one credit per operation.
PlayUsageRecordsOne(us, l, phase) ==
  IF Runs("usage", phase) /\ l.licOk
    THEN Append(us, [userId |-> l.user, credits_used |-> 1])
    ELSE us

\* usageLicense.create
PlayUsage(us, l, phase) ==
  IF Runs("usage", phase) /\ l.licOk
    THEN Append(us, [userId |-> l.user, credits_used |-> l.needed])
    ELSE us

\* Rows updated by the statements that take effect in this phase.
PlayRows(l, phase) ==
  (IF Runs("debit", phase) \/ (Runs("credit", phase) /\ WinsMoney(l))
     THEN {WalletRow(l.user)} ELSE {})
  \cup (IF Runs("user", phase) THEN {UserRow(l.user)} ELSE {})
  \cup (IF Runs("stats", phase) THEN {CardRow} ELSE {})
  \cup (IF Runs("license", phase) /\ l.licOk THEN {LicenseRow} ELSE {})

\* Rows the transaction updates through its own client.
TxRows(l) == PlayRows(l, "commit")

\* The commit of rows by slot p reaches every open serializable transaction.
MarkDirty(p, mine, rows) ==
  [q \in Procs |->
     IF q = p THEN mine
     ELSE IF InPlayTx(q) THEN [proc[q] EXCEPT !.dirty = @ \cup rows]
     ELSE proc[q]]

\* History of what a phase of a play made durable.
PlayHist(h, l, phase) ==
  [h EXCEPT
     !.playDebits[l.user] = IF Runs("debit", phase) THEN @ + 1 ELSE @,
     !.redeemCredits = IF Runs("game", phase) THEN Append(@, 0) ELSE @]

\* The effect of one phase of the play of slot p, with its locals l.
PlayEffects(p, l, mine, phase) ==
  /\ balance' = [balance EXCEPT ![l.user] = PlayBalance(@, l, phase)]
  /\ games' = PlayGames(games, l, phase)
  /\ userStats' = [userStats EXCEPT ![l.user] = PlayUserStats(@, l, phase)]
  /\ card' = PlayCard(card, l, phase)
  /\ license' = PlayLicense(license, l, phase)
  /\ usage' = PlayUsage(usage, l, phase)
  /\ proc' = MarkDirty(p, mine, PlayRows(l, phase))
  /\ hist' = PlayHist(hist, l, phase)
  /\ UNCHANGED <<deposits, withdraws, prizes>>

\* user.findUnique with the wallet (first await of playScratchCard)
PlayReadUser(p, u) ==
  /\ proc[p].pc = "idle"
  /\ opsLeft > 0
  /\ opsLeft' = opsLeft - 1
  /\ proc' = [proc EXCEPT ![p] =
       [IdleProc EXCEPT !.pc = "play_card", !.op = "play", !.user = u,
                        !.wbal = balance[u]]]
  /\ UNCHANGED <<store, hist>>

\* prizes: { where: { is_active: true } }, in table order
ActivePrizes(tbl) == SelectSeq(tbl, LAMBDA x : ~x.deleted /\ x.is_active)

\* scratchCard.findUnique with its active prizes
PlayReadCard(p) ==
  /\ proc[p].pc = "play_card"
  /\ card.exists
  /\ proc' = [proc EXCEPT ![p].pc = "play_check", ![p].rtp = card.current_rtp,
                          ![p].prizes = ActivePrizes(prizes)]
  /\ UNCHANGED <<store, opsLeft, hist>>

\* scratchCard.findUnique finds no card
PlayCardNotFound(p) ==
  /\ proc[p].pc = "play_card"
  /\ ~card.exists
  /\ proc' = [proc EXCEPT ![p] = Finished(p, "CardNotFound")]
  /\ UNCHANGED <<store, opsLeft, hist>>

\* The advisory license check fails.
PlayLicenseUnavailable(p) ==
  /\ proc[p].pc = "play_check"
  /\ ~HasEnoughCredits(license, Price).success
  /\ proc' = [proc EXCEPT ![p] = Finished(p, "LicenseUnavailable")]
  /\ UNCHANGED <<store, opsLeft, hist>>

\* The balance read at the start is below the price.
PlayInsufficientFunds(p) ==
  /\ proc[p].pc = "play_check"
  /\ HasEnoughCredits(license, Price).success
  /\ proc[p].wbal < Price
  /\ proc' = [proc EXCEPT ![p] = Finished(p, "InsufficientFunds")]
  /\ UNCHANGED <<store, opsLeft, hist>>

\* Variant of PlayResolve: the balance read at the start is not compared
\* with the price.
PlayResolveNoBalanceCheck(p, r) ==
  /\ proc[p].pc = "play_check"
  /\ HasEnoughCredits(license, Price).success
  /\ LET gameResult == DetermineGameResult(proc[p].prizes, proc[p].rtp,
                          ScratchCard.target_rtp, IsInfluencer(proc[p].user), r)
     IN proc' = [proc EXCEPT ![p].pc = "play_tx", ![p].prize = gameResult.prize,
                             ![p].isWinner = gameResult.isWinner,
                             ![p].amountWon = AmountWon(gameResult)]
  /\ UNCHANGED <<store, opsLeft, hist>>

\* Variant of PlayResolve: the draw that decides is derived from a request
\* counter kept outside the resolver.
PlayResolveHiddenSeed(p, r) ==
  /\ proc[p].pc = "play_check"
  /\ HasEnoughCredits(license, Price).success
  /\ proc[p].wbal >= Price
  /\ LET gameResult == DetermineGameResult(proc[p].prizes, proc[p].rtp,
                          ScratchCard.target_rtp, IsInfluencer(proc[p].user),
                          (r + 37 * opsLeft) % 100)
     IN proc' = [proc EXCEPT ![p].pc = "play_tx", ![p].prize = gameResult.prize,
                             ![p].isWinner = gameResult.isWinner,
                             ![p].amountWon = AmountWon(gameResult)]
  /\ UNCHANGED <<store, opsLeft, hist>>

\* Both checks pass; the outcome is resolved from one draw, before the
\* transaction.
PlayResolve(p, r) ==
  /\ proc[p].pc = "play_check"
  /\ HasEnoughCredits(license, Price).success
  /\ proc[p].wbal >= Price
  /\ LET gameResult == DetermineGameResult(proc[p].prizes, proc[p].rtp,
                          ScratchCard.target_rtp, IsInfluencer(proc[p].user), r)
     IN proc' = [proc EXCEPT ![p].pc = "play_tx", ![p].prize = gameResult.prize,
                             ![p].isWinner = gameResult.isWinner,
                             ![p].amountWon = AmountWon(gameResult)]
  /\ UNCHANGED <<store, opsLeft, hist>>

\* games.prizeId references prizes.id: null, or a row of the table.
PrizeRowExists(id) == IF id = 0 THEN TRUE ELSE ~prizes[id].deleted

\* Variant of PlayTxBody: the outcome is resolved again from a new draw when
\* the transaction opens.
PlayTxBodyRedraws(p) ==
  /\ proc[p].pc = "play_tx"
  /\ PrizeRowExists(proc[p].prize.id)
  /\ \E r \in Draws :
       LET again == DetermineGameResult(proc[p].prizes, proc[p].rtp,
                      ScratchCard.target_rtp, IsInfluencer(proc[p].user), r)
           l == [proc[p] EXCEPT !.prize = again.prize,
                                !.isWinner = again.isWinner,
                                !.amountWon = AmountWon(again)]
       IN PlayEffects(p, l, [l EXCEPT !.pc = "play_consume", !.dirty = {}], "body")
  /\ UNCHANGED opsLeft

\* The transaction opens and runs its statements up to the current_rtp update.
PlayTxBody(p) ==
  /\ proc[p].pc = "play_tx"
  /\ PrizeRowExists(proc[p].prize.id)
  /\ LET l == proc[p]
     IN PlayEffects(p, l, [l EXCEPT !.pc = "play_consume", !.dirty = {}], "body")
  /\ UNCHANGED opsLeft

\* game.create names a prize whose row has been deleted since the card was
\* read: the foreign key rejects it and the transaction is rolled back.
PlayPrizeGone(p) ==
  /\ proc[p].pc = "play_tx"
  /\ ~PrizeRowExists(proc[p].prize.id)
  /\ proc' = [proc EXCEPT ![p] = Finished(p, "PrizeGone")]
  /\ UNCHANGED <<store, opsLeft, hist>>

\* consumeCreditsAndAddEarnings: hasEnoughCredits reads the license through
\* the global client; a failure is returned, and the caller drops the result.
PlayConsume(p) ==
  /\ proc[p].pc = "play_consume"
  /\ LET chk == HasEnoughCredits(license, Price)
         l == [proc[p] EXCEPT !.pc = "play_commit", !.licOk = chk.success,
                              !.needed = chk.creditsNeeded,
                              !.ggr = license.ggr_percentage]
     IN PlayEffects(p, l, l, "consume")
  /\ UNCHANGED opsLeft

\* The callback returns the game and the transaction commits.
PlayCommit(p) ==
  /\ proc[p].pc = "play_commit"
  /\ proc[p].dirty \cap TxRows(proc[p]) = {}
  /\ PlayEffects(p, proc[p], Finished(p, "ok"), "commit")
  /\ UNCHANGED opsLeft

\* A row the transaction updates was updated by a commit after its snapshot:
\* serialization failure, the transaction is rolled back.
PlayConflict(p) ==
  /\ proc[p].pc = "play_commit"
  /\ proc[p].dirty \cap TxRows(proc[p]) # {}
  /\ proc' = [proc EXCEPT ![p] = Finished(p, "Conflict")]
  /\ UNCHANGED <<store, opsLeft, hist>>

\* Variant of PlayTimeout: the debit issued before the bound expired stays.
PlayTimeoutKeepsDebit(p) ==
  /\ InPlayTx(p)
  /\ balance' = [balance EXCEPT ![proc[p].user] = @ - Price]
  /\ proc' = [proc EXCEPT ![p] = Finished(p, "Timeout")]
  /\ UNCHANGED <<deposits, userStats, card, prizes, license, games, usage, withdraws,
                 opsLeft, hist>>

\* maxWait / timeout expire: the transaction is rolled back.
PlayTimeout(p) ==
  /\ InPlayTx(p)
  /\ proc' = [proc EXCEPT ![p] = Finished(p, "Timeout")]
  /\ UNCHANGED <<store, opsLeft, hist>>

Play(p) ==
  \/ \E u \in Users : PlayReadUser(p, u)
  \/ PlayReadCard(p)
  \/ PlayLicenseUnavailable(p)
  \/ PlayInsufficientFunds(p)
  \/ \E r \in Draws : PlayResolve(p, r)
  \/ PlayTxBody(p)
  \/ PlayConsume(p)
  \/ PlayCommit(p)
  \/ PlayConflict(p)
  \/ PlayTimeout(p)

\* ---------------------------------------------------- Redemption Chooser
\* The prize row joined to a game (null when prizeId is null).
HasProductPrize(g) == g.prizeId # 0 /\ prizes[g.prizeId].type = "PRODUCT"

\* Variant of RedeemCheck: the game is looked up by its id alone.
RedeemCheckAnyOwner(u, gid, choice) ==
  LET g == games[gid]
  IN IF ~(g.is_winner /\ g.status = "COMPLETED") THEN "NotEligible"
     ELSE IF ~HasProductPrize(g) THEN "NotEligible"
     ELSE IF g.redemption_choice # FALSE THEN "AlreadyRedeemed"
     ELSE IF choice # "product" /\ choice # "money" THEN "InvalidChoice"
     ELSE IF choice = "money" /\ prizes[g.prizeId].redemption_value <= 0
       THEN "NotEligible"
     ELSE "ok"

\* Variant of RedeemCheck: the choice is validated before the game is looked
\* up.
RedeemCheckChoiceFirst(u, gid, choice) ==
  LET g == games[gid]
  IN IF choice # "product" /\ choice # "money" THEN "InvalidChoice"
     ELSE IF ~(g.userId = u /\ g.is_winner /\ g.status = "COMPLETED") THEN "NotEligible"
     ELSE IF ~HasProductPrize(g) THEN "NotEligible"
     ELSE IF g.redemption_choice # FALSE THEN "AlreadyRedeemed"
     ELSE IF choice = "money" /\ prizes[g.prizeId].redemption_value <= 0
       THEN "NotEligible"
     ELSE "ok"

\* The checks of chooseRedemption, in the order of the code; "ok" when all pass.
RedeemCheck(u, gid, choice) ==
  LET g == games[gid]
  IN IF ~(g.userId = u /\ g.is_winner /\ g.status = "COMPLETED") THEN "NotEligible"
     ELSE IF ~HasProductPrize(g) THEN "NotEligible"
     ELSE IF g.redemption_choice # FALSE THEN "AlreadyRedeemed"
     ELSE IF choice # "product" /\ choice # "money" THEN "InvalidChoice"
     ELSE IF choice = "money" /\ prizes[g.prizeId].redemption_value <= 0
       THEN "NotEligible"
     ELSE "ok"

\* Variant of RedeemGame: the money branch records the choice and the prize
\* type and leaves amount_won as the play wrote it.
RedeemGameKeepsAmount(g, choice, value) ==
  IF choice = "money"
    THEN [g EXCEPT !.redemption_choice = TRUE, !.prize_type = "REDEMPTION"]
    ELSE [g EXCEPT !.redemption_choice = FALSE, !.prize_type = "PRODUCT",
                   !.status = "PENDING_DELIVERY"]

\* game.update of the money branch / of the product branch
RedeemGame(g, choice, value) ==
  IF choice = "money"
    THEN [g EXCEPT !.redemption_choice = TRUE, !.amount_won = value,
                   !.prize_type = "REDEMPTION"]
    ELSE [g EXCEPT !.redemption_choice = FALSE, !.prize_type = "PRODUCT",
                   !.status = "PENDING_DELIVERY"]

\* The transaction reads the game inside itself and a check throws.
RedeemFail(p, u, gid, choice) ==
  /\ proc[p].pc = "idle"
  /\ opsLeft > 0
  /\ gid \in 1..Len(games)
  /\ RedeemCheck(u, gid, choice) # "ok"
  /\ opsLeft' = opsLeft - 1
  /\ proc' = [proc EXCEPT ![p] =
       [IdleProc EXCEPT !.op = "redeem", !.game = gid, !.res = RedeemCheck(u, gid, choice)]]
  /\ UNCHANGED <<store, hist>>

\* The transaction reads the game inside itself and every check passes.
RedeemRead(p, u, gid, choice) ==
  /\ proc[p].pc = "idle"
  /\ opsLeft > 0
  /\ gid \in 1..Len(games)
  /\ RedeemCheck(u, gid, choice) = "ok"
  /\ opsLeft' = opsLeft - 1
  /\ proc' = [proc EXCEPT ![p] =
       [IdleProc EXCEPT !.pc = "redeem_write", !.op = "redeem", !.user = u,
                        !.game = gid, !.choice = choice,
                        !.amount = prizes[games[gid].prizeId].redemption_value]]
  /\ UNCHANGED <<store, hist>>

\* Variant of RedeemCommit: the money branch also brings current_rtp up to
\* the new total_payouts.
RedeemCommitRecomputesRtp(p) ==
  /\ proc[p].pc = "redeem_write"
  /\ LET l == proc[p]
         money == l.choice = "money"
     IN /\ balance' = IF money THEN [balance EXCEPT ![l.user] = @ + l.amount]
                      ELSE balance
        /\ games' = [games EXCEPT ![l.game] = RedeemGame(@, l.choice, l.amount)]
        /\ card' = IF money
                     THEN [card EXCEPT
                             !.total_payouts = @ + l.amount,
                             !.current_rtp = CurrentRtp(card.total_revenue,
                                               card.total_payouts + l.amount)]
                     ELSE card
        /\ hist' = IF money
                     THEN [hist EXCEPT !.redeemCredits[l.game] = @ + 1,
                                       !.walletOther = @ \cup {l.user}]
                     ELSE hist
        /\ proc' = MarkDirty(p, Finished(p, "ok"),
                             IF money THEN {WalletRow(l.user), CardRow} ELSE {})
  /\ UNCHANGED <<deposits, userStats, prizes, license, usage, withdraws, opsLeft>>

\* The updates of the chosen branch, committed under the default isolation.
RedeemCommit(p) ==
  /\ proc[p].pc = "redeem_write"
  /\ LET l == proc[p]
         money == l.choice = "money"
     IN /\ balance' = IF money THEN [balance EXCEPT ![l.user] = @ + l.amount]
                      ELSE balance
        /\ games' = [games EXCEPT ![l.game] = RedeemGame(@, l.choice, l.amount)]
        /\ card' = IF money THEN [card EXCEPT !.total_payouts = @ + l.amount]
                   ELSE card
        /\ hist' = IF money
                     THEN [hist EXCEPT !.redeemCredits[l.game] = @ + 1,
                                       !.walletOther = @ \cup {l.user}]
                     ELSE hist
        /\ proc' = MarkDirty(p, Finished(p, "ok"),
                             IF money THEN {WalletRow(l.user), CardRow} ELSE {})
  /\ UNCHANGED <<deposits, userStats, prizes, license, usage, withdraws, opsLeft>>

Redeem(p) ==
  \/ \E u \in Users, gid \in 1..MaxOps, c \in Choices : RedeemFail(p, u, gid, c)
  \/ \E u \in Users, gid \in 1..MaxOps, c \in Choices : RedeemRead(p, u, gid, c)
  \/ RedeemCommit(p)

\* ------------------------------------------------------- createWithdraw
\* The checks made on the wallet read before the transaction.
WithdrawCheck(bal, amount) ==
  IF bal < amount THEN "InsufficientFunds"
  ELSE IF amount < MinWithdraw THEN "Invalid"
  ELSE "ok"

WithdrawFail(p, u, amount) ==
  /\ proc[p].pc = "idle"
  /\ opsLeft > 0
  /\ WithdrawCheck(balance[u], amount) # "ok"
  /\ opsLeft' = opsLeft - 1
  /\ proc' = [proc EXCEPT ![p] =
       [IdleProc EXCEPT !.op = "withdraw", !.res = WithdrawCheck(balance[u], amount)]]
  /\ UNCHANGED <<store, hist>>

WithdrawRead(p, u, amount) ==
  /\ proc[p].pc = "idle"
  /\ opsLeft > 0
  /\ WithdrawCheck(balance[u], amount) = "ok"
  /\ opsLeft' = opsLeft - 1
  /\ proc' = [proc EXCEPT ![p] =
       [IdleProc EXCEPT !.pc = "withdraw_tx", !.op = "withdraw", !.user = u,
                        !.amount = amount]]
  /\ UNCHANGED <<store, hist>>

\* wallet decrement, withdraw.create, user.total_withdraw increment
WithdrawCommit(p) ==
  /\ proc[p].pc = "withdraw_tx"
  /\ LET l == proc[p]
     IN /\ balance' = [balance EXCEPT ![l.user] = @ - l.amount]
        /\ withdraws' = Append(withdraws, [userId |-> l.user, amount |-> l.amount,
                                           status |-> FALSE])
        /\ userStats' = [userStats EXCEPT ![l.user].total_withdraw = @ + l.amount]
        /\ hist' = [hist EXCEPT !.walletOther = @ \cup {l.user}]
        /\ proc' = MarkDirty(p, Finished(p, "ok"), {WalletRow(l.user), UserRow(l.user)})
  /\ UNCHANGED <<deposits, card, prizes, license, games, usage, opsLeft>>

Withdraw(p) ==
  \/ \E u \in Users, a \in WithdrawAmounts : WithdrawFail(p, u, a)
  \/ \E u \in Users, a \in WithdrawAmounts : WithdrawRead(p, u, a)
  \/ WithdrawCommit(p)

\* ---------------------------------------------------- adjustUserBalance
\* wallet.balance + amount < 0, where wallet.balance is a Decimal object: the
\* + concatenates its string with the number, and the text compared with 0
\* is a negative number only for a negative balance and a positive amount
\* (for a negative amount it is no number, and the comparison is false).
AdjustRejects(bal, amount) == bal < 0 /\ amount > 0

AdjustFail(p, u, amount) ==
  /\ proc[p].pc = "idle"
  /\ opsLeft > 0
  /\ amount = 0 \/ AdjustRejects(balance[u], amount)
  /\ opsLeft' = opsLeft - 1
  /\ proc' = [proc EXCEPT ![p] =
       [IdleProc EXCEPT !.op = "adjust", !.res = "Invalid"]]
  /\ UNCHANGED <<store, hist>>

AdjustRead(p, u, amount) ==
  /\ proc[p].pc = "idle"
  /\ opsLeft > 0
  /\ amount # 0
  /\ ~AdjustRejects(balance[u], amount)
  /\ opsLeft' = opsLeft - 1
  /\ proc' = [proc EXCEPT ![p] =
       [IdleProc EXCEPT !.pc = "adjust_write", !.op = "adjust", !.user = u,
                        !.amount = amount]]
  /\ UNCHANGED <<store, hist>>

\* wallet.update increment amount
AdjustWrite(p) ==
  /\ proc[p].pc = "adjust_write"
  /\ LET l == proc[p]
     IN /\ balance' = [balance EXCEPT ![l.user] = @ + l.amount]
        /\ hist' = [hist EXCEPT !.walletOther = @ \cup {l.user}]
        /\ proc' = MarkDirty(p, Finished(p, "ok"), {WalletRow(l.user)})
  /\ UNCHANGED <<deposits, userStats, card, prizes, license, games, usage, withdraws, opsLeft>>

Adjust(p) ==
  \/ \E u \in Users, a \in AdjustAmounts : AdjustFail(p, u, a)
  \/ \E u \in Users, a \in AdjustAmounts : AdjustRead(p, u, a)
  \/ AdjustWrite(p)

\* ------------------------------------------------------- license admin
\* Parameters a call of updateLicenseParams may carry; given holds the
\* names of the fields that are not undefined.
LicenseParams ==
  { [given |-> {"is_active"}, credits |-> 0, credits_value |-> 0,
     ggr_percentage |-> 0, is_active |-> FALSE],
    [given |-> {"is_active"}, credits |-> 0, credits_value |-> 0,
     ggr_percentage |-> 0, is_active |-> TRUE] }

\* Commits of the admin operations reach the open transactions too.
AdminDirty(rows) ==
  [q \in Procs |-> IF InPlayTx(q) THEN [proc[q] EXCEPT !.dirty = @ \cup rows]
                   ELSE proc[q]]

EditCredits(newCredits) ==
  /\ opsLeft > 0
  /\ opsLeft' = opsLeft - 1
  /\ license' = [license EXCEPT !.credits = newCredits]
  /\ hist' = [hist EXCEPT !.licenseEdited = TRUE, !.creditsEdited = TRUE]
  /\ proc' = AdminDirty({LicenseRow})
  /\ UNCHANGED <<deposits, balance, userStats, card, prizes, games, usage, withdraws>>

Given(params, field, old) == IF field \in params.given THEN params[field] ELSE old

UpdateLicenseParams(params) ==
  /\ opsLeft > 0
  /\ opsLeft' = opsLeft - 1
  /\ license' = [license EXCEPT
       !.credits = Given(params, "credits", @),
       !.credits_value = Given(params, "credits_value", @),
       !.ggr_percentage = Given(params, "ggr_percentage", @),
       !.is_active = Given(params, "is_active", @)]
  /\ hist' = [hist EXCEPT !.licenseEdited = TRUE,
                          !.creditsEdited = @ \/ "credits" \in params.given]
  /\ proc' = AdminDirty({LicenseRow})
  /\ UNCHANGED <<deposits, balance, userStats, card, prizes, games, usage, withdraws>>

\* addEarnings: total_earnings increment amount (kept in hundredths)
AddEarnings(amount) ==
  /\ opsLeft > 0
  /\ opsLeft' = opsLeft - 1
  /\ license' = [license EXCEPT !.total_earnings = @ + amount * 100]
  /\ proc' = AdminDirty({LicenseRow})
  /\ UNCHANGED <<deposits, balance, userStats, card, prizes, games, usage, withdraws, hist>>

\* ------------------------------------------------------------------ Next
Next ==
  \/ \E p \in Procs : Play(p)
  \/ \E p \in Procs : Redeem(p)
  \/ \E p \in Procs : Withdraw(p)
  \/ \E p \in Procs : Adjust(p)
  \/ \E n \in CreditEdits : EditCredits(n)
  \/ \E params \in LicenseParams : UpdateLicenseParams(params)

Spec == Init /\ [][Next]_vars

\* A play that has started takes its next step: every await of the handler
\* is answered by the database, and the transaction is bounded by maxWait
\* and timeout.
PlayContinues(p) == proc[p].pc # "idle" /\ Play(p)

\* Plays, and the refill of the license that lets more than one be paid for.
NextLive ==
  \/ \E p \in Procs : Play(p)
  \/ \E n \in CreditEdits : EditCredits(n)

SpecLive ==
  Init /\ [][NextLive]_vars /\ \A p \in Procs : WF_vars(PlayContinues(p))

\* ------------------------------------------------- prize administration
\* Prize data an admin may send; a missing value or redemption_value is 0.
MoneyPrize(v, prob) ==
  [type |-> "MONEY", value |-> v, redemption_value |-> 0, probability |-> prob]

ProductPrize(rv, prob) ==
  [type |-> "PRODUCT", value |-> 0, redemption_value |-> rv, probability |-> prob]

\* Prize lists sent to createScratchCardWithPrizes.
PrizeLists ==
  { << MoneyPrize(3, 100) >>,
    << MoneyPrize(3, 60), ProductPrize(4, 40) >>,
    << MoneyPrize(3, 60), MoneyPrize(3, 60) >> }

\* Prize data sent to addPrizeToScratchCard.
PrizeInputs == { MoneyPrize(3, 60), MoneyPrize(0, 10) }

\* Bodies sent to updatePrize; given holds the fields that are not undefined.
PrizeUpdates ==
  { [given |-> {"probability"}, type |-> "null", value |-> 0, probability |-> 100,
     is_active |-> FALSE],
    [given |-> {"value"}, type |-> "null", value |-> -1, probability |-> 0,
     is_active |-> FALSE],
    [given |-> {"is_active"}, type |-> "null", value |-> 0, probability |-> 0,
     is_active |-> FALSE] }

ValidatePrizeType(type) == type \in {"MONEY", "PRODUCT"}

ValidateProbability(probability) == probability >= 0 /\ probability <= 100

\* validatePrizeData, for data whose name, product_name and image_url pass
ValidatePrizeData(prize) ==
  /\ ValidatePrizeType(prize.type)
  /\ ValidateProbability(prize.probability)
  /\ prize.type = "MONEY" => prize.value > 0
  /\ prize.type = "PRODUCT" => prize.redemption_value > 0

RECURSIVE TotalProbability(_, _)
TotalProbability(list, n) ==
  IF n = 0 THEN 0 ELSE TotalProbability(list, n - 1) + list[n].probability

ValidatePrizesData(list) ==
  /\ Len(list) >= 1
  /\ Len(list) <= 20
  /\ \A i \in 1..Len(list) : ValidatePrizeData(list[i])
  /\ TotalProbability(list, Len(list)) <= 100

\* The row prize.create / prize.createMany inserts at position id.
NewPrizeRow(id, data) ==
  [id |-> id, type |-> data.type, value |-> data.value,
   redemption_value |-> data.redemption_value, probability |-> data.probability,
   is_active |-> TRUE, deleted |-> FALSE]

\* createScratchCardWithPrizes, creating the card of this model
CreateScratchCardWithPrizes(list) ==
  /\ ~card.exists
  /\ ValidatePrizesData(list)
  /\ card' = NewCard
  /\ prizes' = [i \in 1..Len(list) |-> NewPrizeRow(i, list[i])]
  /\ UNCHANGED <<deposits, balance, userStats, license, games, usage, withdraws,
                 proc, opsLeft, hist>>

AddPrizeToScratchCard(data) ==
  /\ opsLeft > 0
  /\ card.exists
  /\ ValidatePrizeData(data)
  /\ opsLeft' = opsLeft - 1
  /\ prizes' = Append(prizes, NewPrizeRow(Len(prizes) + 1, data))
  /\ UNCHANGED <<deposits, balance, userStats, card, license, games, usage, withdraws,
                 proc, hist>>

\* updatePrize: a field is written when it is given, value and probability
\* only when they are truthy (given and not 0)
UpdatePrize(id, data) ==
  /\ opsLeft > 0
  /\ id \in 1..Len(prizes)
  /\ ~prizes[id].deleted
  /\ "probability" \in data.given => ValidateProbability(data.probability)
  /\ ("type" \in data.given /\ data.type # prizes[id].type)
       => ValidatePrizeType(data.type)
  /\ opsLeft' = opsLeft - 1
  /\ prizes' = [prizes EXCEPT
       ![id].type = Given(data, "type", @),
       ![id].value = IF "value" \in data.given /\ data.value # 0
                       THEN data.value ELSE @,
       ![id].probability = IF "probability" \in data.given /\ data.probability # 0
                             THEN data.probability ELSE @,
       ![id].is_active = Given(data, "is_active", @)]
  /\ UNCHANGED <<deposits, balance, userStats, card, license, games, usage, withdraws,
                 proc, hist>>

\* deletePrize: prize.findUnique and game.count
DeletePrizeRead(p, id) ==
  /\ proc[p].pc = "idle"
  /\ opsLeft > 0
  /\ id \in 1..Len(prizes)
  /\ ~prizes[id].deleted
  /\ opsLeft' = opsLeft - 1
  /\ proc' = [proc EXCEPT ![p] =
       [IdleProc EXCEPT !.pc = "delete_write", !.op = "deletePrize", !.target = id,
          !.gamesWithPrize = Cardinality({i \in 1..Len(games) : games[i].prizeId = id})]]
  /\ UNCHANGED <<store, hist>>

\* A play transaction that has inserted a game naming prize id holds a lock
\* on the prize row until it ends.
PrizeRowLocked(id) == \E q \in Procs : InPlayTx(q) /\ proc[q].prize.id = id

\* ON DELETE SET NULL of games_prizeId_fkey
SetNullPrize(gs, id) ==
  [i \in 1..Len(gs) |-> IF gs[i].prizeId = id THEN [gs[i] EXCEPT !.prizeId = 0]
                        ELSE gs[i]]

\* deletePrize: prize.update is_active false when games were counted, else
\* prize.delete; either fails when the row is gone.
DeletePrizeWrite(p) ==
  /\ proc[p].pc = "delete_write"
  /\ LET id == proc[p].target
     IN IF prizes[id].deleted
          THEN /\ proc' = [proc EXCEPT ![p] = Finished(p, "PrizeNotFound")]
               /\ UNCHANGED <<prizes, games>>
          ELSE IF proc[p].gamesWithPrize > 0
            THEN /\ prizes' = [prizes EXCEPT ![id].is_active = FALSE]
                 /\ proc' = [proc EXCEPT ![p] = Finished(p, "deactivated")]
                 /\ UNCHANGED games
            ELSE /\ ~PrizeRowLocked(id)
                 /\ prizes' = [prizes EXCEPT ![id].deleted = TRUE]
                 /\ games' = SetNullPrize(games, id)
                 /\ proc' = [proc EXCEPT ![p] = Finished(p, "deleted")]
  /\ UNCHANGED <<deposits, balance, userStats, card, license, usage, withdraws, opsLeft, hist>>

DeletePrize(p) ==
  \/ \E id \in 1..MaxOps : DeletePrizeRead(p, id)
  \/ DeletePrizeWrite(p)

\* The card does not exist before it is created, and its prizes change.
InitCatalog ==
  /\ card = [NewCard EXCEPT !.exists = FALSE]
  /\ prizes = << >>
  /\ InitAccounts

PlayCatalog(p) ==
  \/ Play(p)
  \/ PlayCardNotFound(p)
  \/ PlayPrizeGone(p)

NextCatalog ==
  \/ \E p \in Procs : PlayCatalog(p)
  \/ \E list \in PrizeLists : CreateScratchCardWithPrizes(list)
  \/ \E data \in PrizeInputs : AddPrizeToScratchCard(data)
  \/ \E id \in 1..MaxOps, data \in PrizeUpdates : UpdatePrize(id, data)
  \/ \E p \in Procs : DeletePrize(p)
  \/ \E n \in CreditEdits : EditCredits(n)

SpecCatalog == InitCatalog /\ [][NextCatalog]_vars

\* --------------------------------------------- the Outcome Resolver alone
\* The inputs of determineGameResult are drawn at the start: the totals the
\* card carries from earlier plays (with the current RTP they give: none,
\* below, equal to and above the target) and the prizes it was created with.
CardStats ==
  { [total_revenue |-> 0,  total_payouts |-> 0],
    [total_revenue |-> 20, total_payouts |-> 16],
    [total_revenue |-> 20, total_payouts |-> 17],
    [total_revenue |-> 20, total_payouts |-> 18],
    [total_revenue |-> 2,  total_payouts |-> 3] }

ResolverLists ==
  { << MoneyPrize(3, 30), ProductPrize(4, 30) >>,
    << MoneyPrize(3, 60), ProductPrize(4, 40) >>,
    << ProductPrize(4, 10), MoneyPrize(3, 0), MoneyPrize(3, 50) >>,
    << MoneyPrize(3, 0), ProductPrize(4, 30) >> }

\* Values of Math.random() * 100, with those that meet a cumulative sum.
ResolverDraws == {0, 8, 10, 12, 30, 36, 37, 48, 50, 60, 72, 73, 99}

InitResolver ==
  /\ \E st \in CardStats :
       card = [NewCard EXCEPT
                 !.total_revenue = st.total_revenue,
                 !.total_payouts = st.total_payouts,
                 !.current_rtp = CurrentRtp(st.total_revenue, st.total_payouts)]
  /\ \E list \in ResolverLists :
       /\ ValidatePrizesData(list)
       /\ prizes = [i \in 1..Len(list) |-> NewPrizeRow(i, list[i])]
  /\ InitAccounts

\* A play up to the resolution of its outcome.
NextResolver ==
  \/ \E p \in Procs, u \in Users : PlayReadUser(p, u)
  \/ \E p \in Procs : PlayReadCard(p)
  \/ \E p \in Procs, r \in ResolverDraws : PlayResolve(p, r)

SpecResolver == InitResolver /\ [][NextResolver]_vars

\* ------------------------------------------------- deposit confirmation
\* confirmDeposit: deposit.findUnique inside the transaction, still pending.
ConfirmDepositRead(p, d) ==
  /\ proc[p].pc = "idle"
  /\ opsLeft > 0
  /\ d \in 1..Len(Deposits)
  /\ ~deposits[d].status
  /\ opsLeft' = opsLeft - 1
  /\ proc' = [proc EXCEPT ![p] =
       [IdleProc EXCEPT !.pc = "confirm_write", !.op = "confirmDeposit",
                        !.target = d]]
  /\ UNCHANGED <<store, hist>>

\* confirmDeposit on a deposit whose status is true: it throws.
ConfirmDepositRejected(p, d) ==
  /\ proc[p].pc = "idle"
  /\ opsLeft > 0
  /\ d \in 1..Len(Deposits)
  /\ deposits[d].status
  /\ opsLeft' = opsLeft - 1
  /\ proc' = [proc EXCEPT ![p] =
       [IdleProc EXCEPT !.op = "confirmDeposit", !.res = "AlreadyConfirmed"]]
  /\ UNCHANGED <<store, hist>>

\* commissionAmount = amount x commission_rate / 100
Commission(d) ==
  (Deposits[d].amount * CommissionRate(InvitedBy(Deposits[d].userId))) \div 100

\* confirmDeposit: deposit.update, the wallet and total_deposit increments
\* and, for an invited user, the commission of the inviter, committed under
\* the default isolation.
ConfirmDepositWrite(p) ==
  /\ proc[p].pc = "confirm_write"
  /\ LET d == proc[p].target
         u == Deposits[d].userId
         inviter == InvitedBy(u)
         own == [balance EXCEPT ![u] = @ + Deposits[d].amount]
         st  == [userStats EXCEPT ![u].total_deposit = @ + Deposits[d].amount]
     IN /\ deposits' = [deposits EXCEPT ![d].status = TRUE]
        /\ balance' = IF inviter # "none"
                        THEN [own EXCEPT ![inviter] = @ + Commission(d)]
                        ELSE own
        /\ userStats' = IF inviter # "none"
                          THEN [st EXCEPT ![inviter].total_commission =
                                            @ + Commission(d)]
                          ELSE st
        /\ proc' = MarkDirty(p, Finished(p, "ok"),
                             {WalletRow(u), UserRow(u)}
                               \cup (IF inviter # "none"
                                      THEN {WalletRow(inviter)} ELSE {}))
  /\ UNCHANGED <<card, prizes, license, games, usage, withdraws, opsLeft, hist>>

\* approveDeposit: deposit.findUnique inside the transaction, still pending.
ApproveDepositRead(p, d) ==
  /\ proc[p].pc = "idle"
  /\ opsLeft > 0
  /\ d \in 1..Len(Deposits)
  /\ ~deposits[d].status
  /\ opsLeft' = opsLeft - 1
  /\ proc' = [proc EXCEPT ![p] =
       [IdleProc EXCEPT !.pc = "approve_write", !.op = "approveDeposit",
                        !.target = d]]
  /\ UNCHANGED <<store, hist>>

\* approveDeposit on a deposit that is not pending: it throws.
ApproveDepositRejected(p, d) ==
  /\ proc[p].pc = "idle"
  /\ opsLeft > 0
  /\ d \in 1..Len(Deposits)
  /\ deposits[d].status
  /\ opsLeft' = opsLeft - 1
  /\ proc' = [proc EXCEPT ![p] =
       [IdleProc EXCEPT !.op = "approveDeposit", !.res = "NotPending"]]
  /\ UNCHANGED <<store, hist>>

\* approveDeposit: deposit.update and the wallet increment, committed under
\* the default isolation.
ApproveDepositWrite(p) ==
  /\ proc[p].pc = "approve_write"
  /\ LET d == proc[p].target
         u == Deposits[d].userId
     IN /\ deposits' = [deposits EXCEPT ![d].status = TRUE]
        /\ balance' = [balance EXCEPT ![u] = @ + Deposits[d].amount]
        /\ proc' = MarkDirty(p, Finished(p, "ok"), {WalletRow(u)})
  /\ UNCHANGED <<userStats, card, prizes, license, games, usage, withdraws,
                 opsLeft, hist>>

\* Confirmations by the webhook and approvals by the admin.
NextDeposit ==
  \/ \E p \in Procs, d \in 1..Len(Deposits) : ConfirmDepositRead(p, d)
  \/ \E p \in Procs, d \in 1..Len(Deposits) : ConfirmDepositRejected(p, d)
  \/ \E p \in Procs : ConfirmDepositWrite(p)
  \/ \E p \in Procs, d \in 1..Len(Deposits) : ApproveDepositRead(p, d)
  \/ \E p \in Procs, d \in 1..Len(Deposits) : ApproveDepositRejected(p, d)
  \/ \E p \in Procs : ApproveDepositWrite(p)

SpecDeposit == Init /\ [][NextDeposit]_vars

\* ------------------------------------------- the License Meter on its own
\* Plays and every admin operation on the license, with parameters that
\* change the value of a credit and the number of credits.
MeterParams ==
  LicenseParams \cup
  { [given |-> {"credits_value"}, credits |-> 0, credits_value |-> 0,
     ggr_percentage |-> 0, is_active |-> FALSE],
    [given |-> {"credits_value"}, credits |-> 0, credits_value |-> 2,
     ggr_percentage |-> 0, is_active |-> FALSE],
    [given |-> {"credits", "ggr_percentage"}, credits |-> 4, credits_value |-> 0,
     ggr_percentage |-> 20, is_active |-> FALSE] }

EarningsAmounts == {5}

NextMeter ==
  \/ \E p \in Procs : Play(p)
  \/ \E n \in CreditEdits : EditCredits(n)
  \/ \E params \in MeterParams : UpdateLicenseParams(params)
  \/ \E a \in EarningsAmounts : AddEarnings(a)

SpecMeter == Init /\ [][NextMeter]_vars

TypeOK ==
  /\ balance \in [Users -> Int]
  /\ license.credits \in Int
  /\ Len(games) <= MaxOps
  /\ Len(hist.redeemCredits) = Len(games)
  /\ \A p \in Procs : proc[p].pc \in
       {"idle", "play_card", "play_check", "play_tx", "play_consume",
        "play_commit", "redeem_write", "withdraw_tx", "adjust_write",
        "delete_write", "confirm_write", "approve_write"}

\* ============================================================== properties
GamesOf(u) == {i \in 1..Len(games) : games[i].userId = u}

RECURSIVE SumWon(_)
SumWon(S) ==
  IF S = {} THEN 0
  ELSE LET i == CHOOSE x \in S : TRUE
       IN games[i].amount_won + SumWon(S \ {i})

RECURSIVE SumUsage(_)
SumUsage(n) == IF n = 0 THEN 0 ELSE SumUsage(n - 1) + usage[n].credits_used

\* A first redemption of game gid has been committed.
Redeemed(gid) ==
  games[gid].redemption_choice \/ games[gid].status = "PENDING_DELIVERY"

\* C1: the wallet balance is never negative, whatever the interleaving of
\* plays, withdrawals and balance adjustments.
C1_BalanceNeverNegative == \A u \in Users : balance[u] >= 0

\* C2: a player who started with exactly the price, was credited nothing
\* since (no prize money, no redemption, no other wallet operation) has at
\* most one committed play: two plays never both succeed on the same balance.
C2_NoDoubleSpend ==
  \A u \in Users :
    ( /\ hist.initBalance[u] = Price
      /\ u \notin hist.walletOther
      /\ \A i \in GamesOf(u) : games[i].amount_won = 0 )
    => Cardinality(GamesOf(u)) <= 1

\* C3: when the license check made inside the play transaction fails, the
\* play fails and nothing of the transaction is persisted.
C3_LicenseFailureAborts ==
  [][ \A p \in Procs :
        ( /\ proc[p].pc = "play_commit"
          /\ ~proc[p].licOk
          /\ proc'[p].pc = "idle" )
        => (store' = store /\ proc'[p].res # "ok") ]_vars

\* C4: every persisted game has its usage record: the two tables have the
\* same number of rows in every state.
C4_GamesEqualUsage == Len(games) = Len(usage)

\* C5: license credits are never negative, and without admin edits the
\* committed plays never need more credits than were issued.
C5_CreditsGate ==
  /\ license.credits >= 0
  /\ ~hist.licenseEdited =>
       Len(games) * CreditsNeeded(license, Price) <= hist.initCredits

\* C6: in every state the wallet of a player has been debited by a play's
\* price exactly as many times as the player has persisted games.
C6_DebitIffGame ==
  \A u \in Users : hist.playDebits[u] = Cardinality(GamesOf(u))

\* C6 witness: a play has committed and another has been rolled back.
C6_Witness ==
  /\ \E u \in Users : hist.playDebits[u] >= 1
  /\ \E p \in Procs : proc[p].op = "play" /\ proc[p].res \in {"Conflict", "Timeout"}

\* C7: with no other wallet operation, balance = initial balance - sum of
\* prices + sum of amount_won of the player's committed plays.
C7_BalanceEquation ==
  \A u \in Users :
    u \notin hist.walletOther =>
      balance[u] = hist.initBalance[u] - Price * Cardinality(GamesOf(u))
                   + SumWon(GamesOf(u))

\* C7 witness: two committed plays of one player, one of them winning money.
C7_Witness ==
  \E u \in Users :
    /\ u \notin hist.walletOther
    /\ Cardinality(GamesOf(u)) >= 2
    /\ SumWon(GamesOf(u)) > 0

\* C8: for one game the money redemption (wallet credit and total_payouts
\* increment) is committed at most once.
C8_RedeemAtMostOnce ==
  \A gid \in 1..Len(games) : hist.redeemCredits[gid] <= 1

\* C9: once a game has been redeemed, every later chooseRedemption of its
\* owner on it fails with AlreadyRedeemed and changes nothing.
C9_LaterCallAlreadyRedeemed ==
  [][ \A p \in Procs, u \in Users, gid \in 1..MaxOps, c \in Choices :
        ( /\ RedeemFail(p, u, gid, c) \/ RedeemRead(p, u, gid, c)
          /\ games[gid].userId = u
          /\ Redeemed(gid) )
        => (proc'[p].res = "AlreadyRedeemed" /\ store' = store) ]_vars

\* C10: a play that fails at any step of its atomic section, the license
\* consumption included, leaves the whole store as it was.
C10_FailureLeavesNoTrace ==
  [][ \A p \in Procs :
        ( /\ InPlayTx(p)
          /\ proc'[p].pc = "idle"
          /\ proc'[p].res # "ok" \/ ~proc[p].licOk )
        => store' = store ]_vars

\* C11: credits_used never decreases: no step of a play, of editCredits, of
\* updateLicenseParams or of addEarnings takes it down.
C11_CreditsUsedMonotone ==
  [][license'.credits_used >= license.credits_used]_vars

\* C11 witness: credits were consumed by plays, earnings were added and the
\* license was edited by the admin.
C11_Witness ==
  /\ license.credits_used > 0
  /\ hist.licenseEdited
  /\ \E a \in EarningsAmounts : license.total_earnings >= a * 100
  /\ license.total_earnings % 100 # 0

\* C12: as long as the admin has not set the number of credits, credits +
\* credits_used equals the credits issued, and credits_used is the sum of the
\* creditsNeeded of the usage records: each consumption moves creditsNeeded
\* from the one to the other.
C12_CreditsConserved ==
  ~hist.creditsEdited =>
    /\ license.credits + license.credits_used = hist.initCredits
    /\ license.credits_used = SumUsage(Len(usage))

\* C12 witness: the value of a credit was changed, two plays have consumed
\* credits since, and the admin has not set the number of credits.
C12_Witness ==
  /\ ~hist.creditsEdited
  /\ hist.licenseEdited
  /\ Len(usage) >= 2
  /\ license.credits_used = hist.initCredits

\* The sum of probability over the active prizes of the product.
ActiveProbability ==
  TotalProbability(ActivePrizes(prizes), Len(ActivePrizes(prizes)))

\* C13: every persisted game has amount_won >= 0, and a game that is no
\* winner has amount_won 0 and no prize.
C13_GameRecordShape ==
  \A i \in 1..Len(games) :
    /\ games[i].amount_won >= 0
    /\ ~games[i].is_winner => (games[i].amount_won = 0 /\ games[i].prizeId = 0)

\* C14: a play that read a card with no active prize has lost, with no
\* prize, whatever the draw, the RTP and the player.
C14_NoPrizesNoWin ==
  \A p \in Procs :
    (proc[p].pc \in {"play_tx", "play_consume", "play_commit"}
       /\ Len(proc[p].prizes) = 0)
    => (~proc[p].isWinner /\ proc[p].prize = NoPrize /\ proc[p].amountWon = 0)

\* C14 witness: an influencer's play has been resolved on an existing card
\* whose prizes are all inactive or deleted.
C14_Witness ==
  \E p \in Procs :
    /\ proc[p].pc = "play_tx"
    /\ Len(proc[p].prizes) = 0
    /\ IsInfluencer(proc[p].user)
    /\ Len(prizes) >= 1

\* C20: the probabilities of the active prizes of the product sum to at
\* most 100, after any sequence of prize administration calls.
C20_ProbabilityBudget == ActiveProbability <= 100

\* The license cannot pay for a play: inactive, or fewer credits than needed.
LicenseShort ==
  ~license.is_active \/ license.credits < CreditsNeeded(license, Price)

\* The step by which the play of slot p leaves its pre-checks.
LeavesChecks(p) == proc[p].pc = "play_check" /\ proc'[p] # proc[p]

\* The step by which the play of slot p commits.
Commits(p) ==
  proc[p].pc = "play_commit" /\ proc'[p].pc = "idle" /\ proc'[p].res = "ok"

\* C15 as stated: a play called with a balance below the price fails with
\* InsufficientFunds and changes nothing.
C15_LowBalanceInsufficientFunds ==
  [][ \A p \in Procs :
        (LeavesChecks(p) /\ proc[p].wbal < Price)
        => ( /\ proc'[p].pc = "idle"
             /\ proc'[p].res = "InsufficientFunds"
             /\ store' = store ) ]_vars

\* C15 amended: a play called with a balance below the price fails and
\* changes nothing (no game, wallet, statistics and license as they were);
\* the failure is InsufficientFunds when the license can pay for the play,
\* and LicenseUnavailable when it cannot, as the license is checked first.
C15_LowBalanceFails ==
  [][ \A p \in Procs :
        (LeavesChecks(p) /\ proc[p].wbal < Price)
        => ( /\ proc'[p].pc = "idle"
             /\ proc'[p].res = IF LicenseShort THEN "LicenseUnavailable"
                                ELSE "InsufficientFunds"
             /\ store' = store ) ]_vars

\* C15 witness: a play has failed with InsufficientFunds on an empty wallet.
C15_Witness ==
  \E p \in Procs, u \in Users :
    /\ proc[p].op = "play"
    /\ proc[p].res = "InsufficientFunds"
    /\ balance[u] < Price

\* C16: a play that reaches the license check while the license is inactive
\* or has fewer credits than needed fails with LicenseUnavailable, with no
\* game created and the wallet (and the rest of the store) unchanged.
C16_LicenseUnavailable ==
  [][ \A p \in Procs :
        (LeavesChecks(p) /\ LicenseShort)
        => ( /\ proc'[p].pc = "idle"
             /\ proc'[p].res = "LicenseUnavailable"
             /\ store' = store ) ]_vars

\* C16 witness: a play has failed with LicenseUnavailable under an inactive
\* license that still has credits, the player's balance being sufficient.
C16_Witness ==
  \E p \in Procs :
    /\ proc[p].op = "play"
    /\ proc[p].res = "LicenseUnavailable"
    /\ ~license.is_active
    /\ license.credits >= CreditsNeeded(license, Price)
    /\ \A u \in Users : balance[u] >= Price

\* C17: the commit of an influencer's play leaves current_rtp as it was and
\* adds the price, the amount won and 1 to the totals of the product.
C17_InfluencerKeepsRtp ==
  [][ \A p \in Procs :
        (Commits(p) /\ IsInfluencer(proc[p].user))
        => ( /\ card'.current_rtp = card.current_rtp
             /\ card'.total_revenue = card.total_revenue + Price
             /\ card'.total_payouts = card.total_payouts + proc[p].amountWon
             /\ card'.total_games_played = card.total_games_played + 1 ) ]_vars

\* C17 witness: two committed plays of the influencer, who won money, and
\* a stored current_rtp that does not reflect them.
C17_Witness ==
  /\ \E u \in Users : IsInfluencer(u) /\ Cardinality(GamesOf(u)) >= 2
  /\ card.total_payouts > 0
  /\ card.current_rtp # CurrentRtp(card.total_revenue, card.total_payouts)

\* C18: the commit of a play that won a MONEY prize of value v changes the
\* player's balance by -price + v, total_revenue by the price, total_payouts
\* by v and total_games_played by 1.
C18_MoneyWinEffects ==
  [][ \A p \in Procs :
        (Commits(p) /\ proc[p].isWinner /\ proc[p].prize.type = "MONEY")
        => LET u == proc[p].user
               v == proc[p].prize.value
           IN /\ balance'[u] = balance[u] - Price + v
              /\ card'.total_revenue = card.total_revenue + Price
              /\ card'.total_payouts = card.total_payouts + v
              /\ card'.total_games_played = card.total_games_played + 1 ]_vars

\* C18 witness: one committed play, a MONEY win, and the balance and totals
\* it leaves.
C18_Witness ==
  \E u \in Users :
    /\ Len(games) = 1
    /\ games[1].userId = u
    /\ games[1].is_winner /\ games[1].prize_type = "MONEY"
    /\ games[1].amount_won > 0
    /\ balance[u] = hist.initBalance[u] - Price + games[1].amount_won
    /\ card.total_revenue = Price
    /\ card.total_payouts = games[1].amount_won

\* The game is one chooseRedemption applies to, for caller u.
Redeemable(u, gid) ==
  /\ games[gid].userId = u
  /\ games[gid].is_winner
  /\ games[gid].status = "COMPLETED"
  /\ games[gid].prizeId # 0
  /\ prizes[games[gid].prizeId].type = "PRODUCT"
  /\ games[gid].redemption_choice = FALSE

\* C19: chooseRedemption passes its checks only on a game that, as the call
\* reads it, belongs to the caller, is a winner, is COMPLETED, has a PRODUCT
\* prize and no redemption choice; on any other game it fails with
\* NotEligible or AlreadyRedeemed, and a failing call changes nothing.
C19_RedeemOnlyEligible ==
  [][ \A p \in Procs :
        (proc'[p] # proc[p] /\ proc[p].pc = "idle" /\ proc'[p].op = "redeem")
        => \A u \in Users, gid \in 1..MaxOps, c \in Choices :
             /\ RedeemRead(p, u, gid, c) => Redeemable(u, gid)
             /\ RedeemFail(p, u, gid, c) =>
                  ( /\ store' = store
                    /\ ~Redeemable(u, gid) =>
                         proc'[p].res \in {"NotEligible", "AlreadyRedeemed"} ) ]_vars

\* C19 witness: one redemption has succeeded and a call on a game that is
\* not redeemable has failed.
C19_Witness ==
  \E p, q \in Procs :
    /\ proc[p].op = "redeem" /\ proc[p].res = "ok"
    /\ proc[q].op = "redeem" /\ proc[q].res \in {"NotEligible", "AlreadyRedeemed"}

\* The multiplier determineGameResult applies for the play of slot p.
MultiplierOf(p) ==
  RtpMultiplier(proc[p].rtp, ScratchCard.target_rtp, IsInfluencer(proc[p].user))

\* C21: the multiplier is 1.2 below the target RTP, 0.8 above it and 1.0 at
\* it (12, 8, 10 tenths), and 6 times that exactly for an influencer.
C21_Multiplier ==
  \A p \in Procs :
    proc[p].pc \in {"play_check", "play_tx"} =>
      LET cur  == proc[p].rtp
          tgt  == ScratchCard.target_rtp
          base == IF cur.num < tgt * cur.den THEN 12
                  ELSE IF cur.num > tgt * cur.den THEN 8
                  ELSE 10
      IN /\ IsInfluencer(proc[p].user) => MultiplierOf(p) = 6 * base
         /\ ~IsInfluencer(proc[p].user) => MultiplierOf(p) = base
         /\ MultiplierOf(p) \in {12, 8, 10, 72, 48, 60}

\* C21 witness: an influencer's play was resolved at a current RTP equal to
\* the target, and another player's above it.
C21_Witness ==
  \E p, q \in Procs :
    /\ proc[p].pc = "play_tx" /\ IsInfluencer(proc[p].user)
    /\ proc[p].rtp.num = ScratchCard.target_rtp * proc[p].rtp.den
    /\ MultiplierOf(p) = 60
    /\ proc[q].pc = "play_check" /\ ~IsInfluencer(proc[q].user)

InAtomicSection == {"play_tx", "play_consume", "play_commit"}

\* C24: the outcome of a play is resolved from one draw as the play leaves
\* its pre-checks, before the transaction opens; it is not resolved again
\* while the transaction runs, the game the commit creates carries that
\* is_winner and that prize, and a transaction that fails creates no game.
C24_SingleDraw ==
  [][ \A p \in Procs :
        proc'[p] # proc[p] =>
          /\ (proc[p].pc = "play_check" /\ proc'[p].pc = "play_tx") =>
               \E r \in Draws :
                 LET res == DetermineGameResult(proc[p].prizes, proc[p].rtp,
                              ScratchCard.target_rtp,
                              IsInfluencer(proc[p].user), r)
                 IN proc'[p].isWinner = res.isWinner /\ proc'[p].prize = res.prize
          /\ (proc[p].pc \in InAtomicSection /\ proc'[p].pc \in InAtomicSection) =>
               /\ proc'[p].isWinner = proc[p].isWinner
               /\ proc'[p].prize = proc[p].prize
          /\ Commits(p) =>
               /\ Len(games') = Len(games) + 1
               /\ games'[Len(games')].is_winner = proc[p].isWinner
               /\ games'[Len(games')].prizeId = proc[p].prize.id
               /\ games'[Len(games')].userId = proc[p].user
          /\ (proc[p].pc \in InAtomicSection /\ proc'[p].pc = "idle"
                /\ proc'[p].res # "ok") => games' = games ]_vars

\* C24 witness: a won game has been committed and the transaction of another
\* play has failed on a serialization conflict.
C24_Witness ==
  /\ \E i \in 1..Len(games) : games[i].is_winner /\ games[i].prizeId = 2
  /\ \E p \in Procs : proc[p].res = "Conflict"

\* The step by which the redemption of slot p commits its updates.
RedeemCommits(p) == proc[p].pc = "redeem_write" /\ proc'[p].pc = "idle"

\* C25: a redemption for money, in the one step of its commit, credits the
\* wallet by the prize's redemption_value, sets redemption_choice to true
\* (CHOSE_MONEY), amount_won to the redemption_value and prize_type to
\* REDEMPTION, and adds the redemption_value to the card's total_payouts.
C25_MoneyRedemption ==
  [][ \A p \in Procs :
        (RedeemCommits(p) /\ proc[p].choice = "money")
        => LET u  == proc[p].user
               g  == proc[p].game
               rv == prizes[games[g].prizeId].redemption_value
           IN /\ balance'[u] = balance[u] + rv
              /\ \A v \in Users \ {u} : balance'[v] = balance[v]
              /\ games'[g].redemption_choice = TRUE
              /\ games'[g].amount_won = rv
              /\ games'[g].prize_type = "REDEMPTION"
              /\ card'.total_payouts = card.total_payouts + rv
              /\ card'.total_revenue = card.total_revenue ]_vars

\* C25 witness: a game has been redeemed for money and its owner's request
\* has returned.
C25_Witness ==
  \E i \in 1..Len(games), p \in Procs :
    /\ games[i].redemption_choice = TRUE
    /\ games[i].prize_type = "REDEMPTION"
    /\ games[i].amount_won = prizes[games[i].prizeId].redemption_value
    /\ proc[p].op = "redeem" /\ proc[p].res = "ok" /\ proc[p].game = i

\* C26 as stated: a redemption for the product leaves in redemption_choice a
\* value that is neither the one of an undecided game (false, as a play
\* writes it) nor the one of a money redemption (true), sets the status to
\* PENDING_DELIVERY and leaves the wallets and total_payouts unchanged.
C26_ProductChoiceDistinct ==
  [][ \A p \in Procs :
        (RedeemCommits(p) /\ proc[p].choice = "product")
        => LET g == proc[p].game
           IN /\ games'[g].redemption_choice # NewGame(proc[p]).redemption_choice
              /\ games'[g].redemption_choice # TRUE
              /\ games'[g].status = "PENDING_DELIVERY"
              /\ balance' = balance
              /\ card'.total_payouts = card.total_payouts ]_vars

\* C27 as stated: a redemption called with a choice other than money or
\* product fails with InvalidChoice whatever the game, and changes nothing.
C27_InvalidChoiceAlways ==
  [][ \A p \in Procs :
        (proc'[p] # proc[p] /\ proc[p].pc = "idle" /\ proc'[p].op = "redeem")
        => \A u \in Users, gid \in 1..MaxOps, c \in Choices \ {"money", "product"} :
             /\ ~RedeemRead(p, u, gid, c)
             /\ RedeemFail(p, u, gid, c) =>
                  (proc'[p].res = "InvalidChoice" /\ store' = store) ]_vars

\* C27: a redemption called with a choice other than money or product
\* always fails and changes nothing; it fails with InvalidChoice when the
\* game is redeemable by the caller, and with NotEligible or AlreadyRedeemed
\* when it is not, the game being checked before the choice.
C27_InvalidChoiceAfterEligibility ==
  [][ \A p \in Procs :
        (proc'[p] # proc[p] /\ proc[p].pc = "idle" /\ proc'[p].op = "redeem")
        => \A u \in Users, gid \in 1..MaxOps, c \in Choices \ {"money", "product"} :
             /\ ~RedeemRead(p, u, gid, c)
             /\ RedeemFail(p, u, gid, c) =>
                  /\ store' = store
                  /\ Redeemable(u, gid) => proc'[p].res = "InvalidChoice"
                  /\ ~Redeemable(u, gid) =>
                       proc'[p].res \in {"NotEligible", "AlreadyRedeemed"} ]_vars

\* C27 witness: one redemption has failed on its choice and another on the
\* game, and no game has been redeemed.
C27_Witness ==
  /\ \E p, q \in Procs :
       /\ proc[p].op = "redeem" /\ proc[p].res = "InvalidChoice"
       /\ proc[q].op = "redeem" /\ proc[q].res = "NotEligible"
  /\ \A i \in 1..Len(games) :
       games[i].redemption_choice = FALSE /\ games[i].status = "COMPLETED"

\* C28 as stated: a game, once created, is changed only by the commit of a
\* redemption of that game; plays, prize updates, deactivations and
\* deletions leave every field of every existing game as it was.
C28_GamesImmutable ==
  [][ /\ Len(games') >= Len(games)
      /\ \A i \in 1..Len(games) :
           games'[i] # games[i] =>
             \E p \in Procs : RedeemCommits(p) /\ proc[p].game = i ]_vars

\* C29: the commit of a play by a player who is no influencer leaves in
\* current_rtp the ratio total_payouts / total_revenue x 100 of the totals
\* that include the play (0 without revenue), whatever plays run beside it.
C29_RtpFromNewTotals ==
  [][ \A p \in Procs :
        (Commits(p) /\ ~IsInfluencer(proc[p].user))
        => /\ card'.total_revenue = card.total_revenue + Price
           /\ card'.total_payouts = card.total_payouts + proc[p].amountWon
           /\ IF card'.total_revenue > 0
                THEN /\ card'.current_rtp.num * card'.total_revenue
                          = card'.total_payouts * 100 * card'.current_rtp.den
                     /\ card'.current_rtp.den > 0
                ELSE card'.current_rtp.num = 0 ]_vars

\* C29 witness: a play has been committed by a player who is no influencer,
\* another play lost a serialization conflict, and the stored current_rtp is
\* above zero.
C29_Witness ==
  /\ Len(games) >= 1
  /\ ~IsInfluencer(games[Len(games)].userId)
  /\ \E p \in Procs : proc[p].res = "Conflict"
  /\ card.current_rtp.num > 0
  /\ card.current_rtp = CurrentRtp(card.total_revenue, card.total_payouts)

\* The credits an operation of the card's price needs under the license as
\* it is: the least n with n x credits_value >= price, 1 without a value.
NeededNow ==
  IF license.credits_value > 0
    THEN CHOOSE n \in 0..Price :
           /\ n * license.credits_value >= Price
           /\ \A k \in 0..(n - 1) : k * license.credits_value < Price
    ELSE 1

\* hasEnoughCredits succeeds on the license as it is.
EnoughNow == license.is_active /\ license.credits >= NeededNow

\* C30: hasEnoughCredits fails, with a result and no exception, exactly when
\* the license is inactive or holds fewer credits than ceil(price /
\* credits_value) (1 when credits_value is not positive), succeeds
\* otherwise and reports that number, and does not change the license.
C30_HasEnoughCredits ==
  [][ \A p \in Procs :
        proc'[p] # proc[p] =>
          /\ LeavesChecks(p) =>
               /\ license' = license
               /\ proc'[p].res = "LicenseUnavailable" <=> ~EnoughNow
               /\ proc'[p].pc = "play_tx" => EnoughNow
          /\ (proc[p].pc = "play_consume" /\ proc'[p].pc = "play_commit") =>
               /\ proc'[p].licOk <=> EnoughNow
               /\ license.is_active => proc'[p].needed = NeededNow
               /\ ~proc'[p].licOk => license' = license ]_vars

\* C30 witness: inside a transaction the check has failed for lack of
\* credits on an active license, and a play has been refused at its
\* pre-check.
C30_Witness ==
  \E p, q \in Procs :
    /\ proc[p].pc = "play_commit" /\ ~proc[p].licOk
    /\ proc[p].needed > 0
    /\ proc[q].res = "LicenseUnavailable"

\* C31: the commit of a play whose consumeCreditsAndAddEarnings succeeded
\* takes creditsNeeded from credits, adds the same number to credits_used,
\* adds price x ggr_percentage / 100 to total_earnings (kept in hundredths)
\* and appends one usage record with the player and creditsNeeded.
C31_ConsumeEffects ==
  [][ \A p \in Procs :
        (Commits(p) /\ proc[p].licOk)
        => LET n == proc[p].needed
           IN /\ n = NeededNow
              /\ license'.credits = license.credits - n
              /\ license'.credits_used = license.credits_used + n
              /\ license'.total_earnings
                   = license.total_earnings + Price * license.ggr_percentage
              /\ license'.credits_value = license.credits_value
              /\ license'.ggr_percentage = license.ggr_percentage
              /\ license'.is_active = license.is_active
              /\ Len(usage') = Len(usage) + 1
              /\ \A i \in 1..Len(usage) : usage'[i] = usage[i]
              /\ usage'[Len(usage')].userId = proc[p].user
              /\ usage'[Len(usage')].credits_used = n ]_vars

\* C31 witness: a play has consumed one credit under a credits_value of 2
\* and earnings have been booked for it.
C31_Witness ==
  /\ Len(usage) >= 1
  /\ usage[Len(usage)].credits_used = 1
  /\ license.credits_value = 2
  /\ license.total_earnings > 0
  /\ \E p \in Procs : proc[p].op = "play" /\ proc[p].res = "ok"

\* The play of slot p is under way.
PlayStarted(p) == proc[p].op = "play" /\ proc[p].pc # "idle"

\* The play of slot p has returned its game or failed with an error.
PlayCompleted(p) == proc[p].op = "play" /\ proc[p].pc = "idle"

\* The step by which the transaction of slot p fails.
TxFails(p) ==
  /\ proc[p].pc \in InAtomicSection
  /\ proc'[p].pc = "idle"
  /\ proc'[p].res # "ok"

\* C32: every play that has started completes, with its game or with an
\* error, and the failure of its transaction (a bound exceeded, a
\* serialization conflict) leaves the store as it was.
C32_PlayCompletes ==
  /\ \A p \in Procs : PlayStarted(p) ~> PlayCompleted(p)
  /\ [][ \A p \in Procs : TxFails(p) => store' = store ]_vars

\* C32 witness: of two plays started, one has failed on the bound of its
\* transaction and the other has committed.
C32_Witness ==
  \E p, q \in Procs :
    /\ proc[p].op = "play" /\ proc[p].res = "Timeout"
    /\ proc[q].op = "play" /\ proc[q].res = "ok"
    /\ Len(games) = 1

\* C33: for every player total_scratchs = total_wins + total_losses = the
\* number of the player's games, total_wins being the number of those that
\* are winners.
C33_CountersMatchGames ==
  \A u \in Users :
    /\ userStats[u].total_scratchs
         = userStats[u].total_wins + userStats[u].total_losses
    /\ userStats[u].total_scratchs = Cardinality(GamesOf(u))
    /\ userStats[u].total_wins
         = Cardinality({i \in GamesOf(u) : games[i].is_winner})

\* C33 witness: a player has won one play and lost another.
C33_Witness ==
  \E u \in Users :
    /\ userStats[u].total_wins >= 1
    /\ userStats[u].total_losses >= 1
    /\ Cardinality(GamesOf(u)) = 2

\* What user u received from deposits if each confirmed deposit was credited
\* once: the amounts of the user's own, and the commissions on those of the
\* users u invited.
OwnDeposits(u) ==
  LET amt(d) == IF Deposits[d].userId = u /\ deposits[d].status
                  THEN Deposits[d].amount ELSE 0
  IN amt(1) + amt(2)

OwnCommissions(u) ==
  LET com(d) == IF InvitedBy(Deposits[d].userId) = u /\ deposits[d].status
                  THEN Commission(d) ELSE 0
  IN com(1) + com(2)

\* C34 as stated: whatever the interleaving of confirmDeposit and
\* approveDeposit calls, a deposit raises the wallet of its user by its
\* amount exactly once, and the inviter's commission is credited at most
\* once.
C34_DepositCreditedOnce ==
  \A u \in Users :
    LET gained == balance[u] - hist.initBalance[u] - OwnDeposits(u)
    IN /\ gained >= 0
       /\ gained <= OwnCommissions(u)
       /\ userStats[u].total_commission <= OwnCommissions(u)

\* C35 as stated: in every state the card's total_payouts is the sum of
\* amount_won over its games and total_games_played is their number.
C35_TotalsMatchGames ==
  /\ card.total_payouts = SumWon(1..Len(games))
  /\ card.total_games_played = Len(games)

\* C36: the credits_used of the license, which starts at zero, is in every
\* state the sum of credits_used over the usage records.
C36_UsageTrailMatches == license.credits_used = SumUsage(Len(usage))

\* C36 witness: two plays have each consumed one credit after the value of
\* a credit was raised, and the admin has also edited the license.
C36_Witness ==
  /\ Len(usage) = 2
  /\ usage[1].credits_used = 1
  /\ license.credits_used = 2
  /\ license.credits_value = 2

\* C37 as stated: a prize row is deleted only when no game names it, so
\* every persisted winning game keeps the reference to its prize, and that
\* prize row exists.
C37_WinnerKeepsPrize ==
  \A i \in 1..Len(games) :
    games[i].is_winner =>
      IF games[i].prizeId = 0 THEN FALSE
      ELSE ~prizes[games[i].prizeId].deleted

\* C38: the commit of a redemption leaves total_revenue,
\* total_games_played and the stored current_rtp of the card, the counters
\* of every player, the license and the usage records as they were; of the
\* rest it changes the redeemed game and, for money, the wallet of the
\* player and total_payouts, and nothing else.
C38_RedemptionFrame ==
  [][ \A p \in Procs :
        RedeemCommits(p)
        => LET u == proc[p].user
               g == proc[p].game
               money == proc[p].choice = "money"
           IN /\ card'.total_revenue = card.total_revenue
              /\ card'.total_games_played = card.total_games_played
              /\ card'.current_rtp = card.current_rtp
              /\ userStats' = userStats
              /\ license' = license
              /\ usage' = usage
              /\ Len(games') = Len(games)
              /\ \A i \in 1..Len(games) : i # g => games'[i] = games[i]
              /\ \A v \in Users : v # u => balance'[v] = balance[v]
              /\ <<prizes', withdraws', deposits'>> = <<prizes, withdraws, deposits>>
              /\ ~money => (balance' = balance /\ card' = card) ]_vars

\* C38 witness: a game was redeemed for money, which went into
\* total_payouts, while the stored current_rtp is still the one the play
\* left.
C38_Witness ==
  /\ \E i \in 1..Len(games) :
       /\ games[i].redemption_choice = TRUE
       /\ card.total_payouts >= games[i].amount_won
       /\ games[i].amount_won > 0
  /\ card.current_rtp.num = 0
  /\ card.total_revenue > 0

\* C39 as stated: whatever the draw, the position in the list and the
\* multiplier, the prize a resolution returns as won has a probability
\* above zero.
C39_ZeroProbabilityNeverWins ==
  \A p \in Procs :
    (proc[p].pc = "play_tx" /\ proc[p].isWinner) => proc[p].prize.probability > 0

=============================================================================
